---- MODULE Spec2Model ----
(***************************************************************************)
(* A model of the memcached ASCII client of src/src/lib.rs: the receive    *)
(* buffer and its consumed-count marker, the receive-driving loop          *)
(* (Client::drive_receive), and the commands layered on it.                *)
(*                                                                         *)
(* Bytes are one-character strings and byte strings are sequences of them. *)
(* The parser module (src/parser) is not part of the sources at hand; its  *)
(* grammar is modelled from section 4.1 of the specification.              *)
(***************************************************************************)
EXTENDS Integers, Sequences, FiniteSets, TLC

\* ------------------------------------------------------------------ bounds
\* How many replies the server sends on one connection.
MaxReplies == 3
\* How many drive_receive cycles a client of the streaming harness runs.
MaxCycles == 3
\* How many commands the caller issues on one connection.
MaxCommands == 2
\* How many key-value pairs the caller gives set_multi.
MaxPairs == 2
\* The no-reply commands a caller issues on one connection.
MaxNoReply == 1
\* The pulls a caller makes on one metadump cursor.
MaxPulls == 3

\* ------------------------------------------------------------ byte strings
CR == "\r"
LF == "\n"
SP == " "
CRLF == <<CR, LF>>

Take(s, n) == SubSeq(s, 1, n)
Drop(s, n) == SubSeq(s, n + 1, Len(s))
StartsWith(s, p) == Len(s) >= Len(p) /\ Take(s, Len(p)) = p

\* The index of the CR of the first line break of s, 0 when s holds none.
LineEnd(s) ==
    LET ends == {i \in 1..(Len(s) - 1) : s[i] = CR /\ s[i + 1] = LF}
    IN IF ends = {} THEN 0 ELSE CHOOSE i \in ends : \A j \in ends : i <= j

Digits == <<"0", "1", "2", "3", "4", "5", "6", "7", "8", "9">>
IsDigit(c) == \E d \in 1..10 : Digits[d] = c
DigitVal(c) == (CHOOSE d \in 1..10 : Digits[d] = c) - 1
AllDigits(s) == Len(s) > 0 /\ \A i \in 1..Len(s) : IsDigit(s[i])

\* The words of a line: the maximal runs of bytes other than the space.
RECURSIVE Words(_)
Words(s) ==
    IF s = <<>> THEN <<>>
    ELSE IF s[1] = SP THEN Words(Drop(s, 1))
    ELSE LET sps == {i \in 1..Len(s) : s[i] = SP}
             e == IF sps = {} THEN Len(s) + 1
                  ELSE CHOOSE i \in sps : \A j \in sps : i <= j
         IN <<Take(s, e - 1)>> \o Words(Drop(s, e - 1))

\* ----------------------------------------------------------------- numbers
\* A u64 is four 16-bit limbs, most significant first, so that the whole
\* range 0 .. 2^64 - 1 is representable.
Limb == 65536
U64Zero == <<0, 0, 0, 0>>
U64Max == <<Limb - 1, Limb - 1, Limb - 1, Limb - 1>>

\* v * 10 + d on limbs: [ok |-> no overflow past 64 bits, val |-> the limbs].
U64MulAdd(v, d) ==
    LET t4 == v[4] * 10 + d
        t3 == v[3] * 10 + (t4 \div Limb)
        t2 == v[2] * 10 + (t3 \div Limb)
        t1 == v[1] * 10 + (t2 \div Limb)
    IN [ok |-> t1 < Limb,
        val |-> <<t1 % Limb, t2 % Limb, t3 % Limb, t4 % Limb>>]

\* A decimal digit string as a u64: ok is FALSE when it does not fit.
RECURSIVE ParseU64(_)
ParseU64(s) ==
    IF s = <<>> THEN [ok |-> TRUE, val |-> U64Zero]
    ELSE LET hi == ParseU64(Take(s, Len(s) - 1))
             r == U64MulAdd(hi.val, DigitVal(s[Len(s)]))
         IN [ok |-> hi.ok /\ r.ok, val |-> r.val]

\* A short decimal digit string (a flags or a length field) as a number.
MaxFieldDigits == 9
RECURSIVE ParseNat(_)
ParseNat(s) ==
    IF s = <<>> THEN 0
    ELSE ParseNat(Take(s, Len(s) - 1)) * 10 + DigitVal(s[Len(s)])
IsField(s) == AllDigits(s) /\ Len(s) <= MaxFieldDigits

\* --------------------------------------------------------------- data model
\* Option<T>: the empty sequence is None, a one-element sequence is Some(x).
None == <<>>
Some(x) == <<x>>
IsSome(o) == o # <<>>
Unwrap(o) == o[1]

\* ErrorKind: Generic | Client(msg) | Server(msg) | Protocol(Option<msg>).
NoKind == [k |-> "None", msg |-> <<>>]
Generic == [k |-> "Generic", msg |-> <<>>]
ClientKind(m) == [k |-> "Client", msg |-> m]
ServerKind(m) == [k |-> "Server", msg |-> m]
Protocol(m) == [k |-> "Protocol", msg |-> m]

\* Status: Stored | NotStored | Exists | Deleted | NotFound | Touched |
\* Error(ErrorKind).
Status(c) == [code |-> c, err |-> NoKind]
StatusError(kind) == [code |-> "Error", err |-> kind]

\* Response: Status(Status) | Data(Option<Vec<Value>>) | IncrDecr(u64).
RStatus(s) == [type |-> "Status", status |-> s, data |-> None, value |-> U64Zero]
RData(d) == [type |-> "Data", status |-> Status("None"), data |-> d, value |-> U64Zero]
RIncrDecr(v) == [type |-> "IncrDecr", status |-> Status("None"), data |-> None, value |-> v]

\* Value: one retrieved item.
Value(k, f, d, c) == [key |-> k, flags |-> f, data |-> d, cas |-> c]

\* The three outcomes of one parser attempt: Ok(Some((n, r))), Ok(None),
\* Err(kind).
Parsed(n, r) == [kind |-> "Parsed", n |-> n, resp |-> r, err |-> NoKind]
Incomplete == [kind |-> "Incomplete", n |-> 0, resp |-> RStatus(Status("None")), err |-> NoKind]
Malformed(e) == [kind |-> "Malformed", n |-> 0, resp |-> RStatus(Status("None")), err |-> e]

\* ------------------------------------------------------------ wire keywords
STORED == <<"S", "T", "O", "R", "E", "D">>
NOT_STORED == <<"N", "O", "T", "_", "S", "T", "O", "R", "E", "D">>
EXISTS == <<"E", "X", "I", "S", "T", "S">>
DELETED == <<"D", "E", "L", "E", "T", "E", "D">>
NOT_FOUND == <<"N", "O", "T", "_", "F", "O", "U", "N", "D">>
TOUCHED == <<"T", "O", "U", "C", "H", "E", "D">>
ERROR == <<"E", "R", "R", "O", "R">>
CLIENT_ERROR == <<"C", "L", "I", "E", "N", "T", "_", "E", "R", "R", "O", "R", " ">>
SERVER_ERROR == <<"S", "E", "R", "V", "E", "R", "_", "E", "R", "R", "O", "R", " ">>
END == <<"E", "N", "D">>
VALUE == <<"V", "A", "L", "U", "E", " ">>

StatusWords ==
    {<<STORED, "Stored">>, <<NOT_STORED, "NotStored">>, <<EXISTS, "Exists">>,
     <<DELETED, "Deleted">>, <<NOT_FOUND, "NotFound">>, <<TOUCHED, "Touched">>}
IsStatusWord(line) == \E p \in StatusWords : p[1] = line
StatusOfWord(line) == (CHOOSE p \in StatusWords : p[1] = line)[2]

\* ------------------------------------------------------------------ parser
\* The VALUE blocks of a data response, from byte offset off of buf on, up to
\* the END line; items holds the blocks already read.
RECURSIVE ParseValues(_, _, _)
ParseValues(buf, off, items) ==
    LET rest == Drop(buf, off)
        e == LineEnd(rest)
        line == Take(rest, e - 1)
        ws == Words(line)
    IN IF e = 0 THEN Incomplete
       ELSE IF line = END THEN Parsed(off + e + 1, RData(Some(items)))
       ELSE IF ~StartsWith(line, VALUE) THEN Malformed(Protocol(None))
       ELSE IF ~(Len(ws) \in {4, 5}) THEN Malformed(Protocol(None))
       ELSE IF ~(IsField(ws[3]) /\ IsField(ws[4])) THEN Malformed(Protocol(None))
       ELSE IF Len(ws) = 5 /\ ~(AllDigits(ws[5]) /\ ParseU64(ws[5]).ok)
            THEN Malformed(Protocol(None))
       ELSE LET n == ParseNat(ws[4])
                body == Drop(rest, e + 1)
                cas == IF Len(ws) = 5 THEN Some(ParseU64(ws[5]).val) ELSE None
            IN IF Len(body) < n + 2 THEN Incomplete
               ELSE IF SubSeq(body, n + 1, n + 2) # CRLF THEN Malformed(Protocol(None))
               ELSE ParseValues(buf, off + e + 1 + n + 2,
                                Append(items, Value(ws[2], ParseNat(ws[3]), Take(body, n), cas)))

\* The standard grammar: a status line, an error line, a numeric line, or
\* VALUE blocks up to END. A bare END is Data(None) or Data(Some([])),
\* whichever form the parser at hand gives (bare_end).
ParseAsciiResponse(buf, bare_end) ==
    LET e == LineEnd(buf)
        line == Take(buf, e - 1)
    IN IF e = 0 THEN Incomplete
       ELSE IF IsStatusWord(line) THEN Parsed(e + 1, RStatus(Status(StatusOfWord(line))))
       ELSE IF line = ERROR THEN Parsed(e + 1, RStatus(StatusError(Generic)))
       ELSE IF StartsWith(line, CLIENT_ERROR)
            THEN Parsed(e + 1, RStatus(StatusError(ClientKind(Drop(line, Len(CLIENT_ERROR))))))
       ELSE IF StartsWith(line, SERVER_ERROR)
            THEN Parsed(e + 1, RStatus(StatusError(ServerKind(Drop(line, Len(SERVER_ERROR))))))
       ELSE IF AllDigits(line)
            THEN IF ParseU64(line).ok THEN Parsed(e + 1, RIncrDecr(ParseU64(line).val))
                 ELSE Malformed(Protocol(None))
       ELSE IF line = END
            THEN Parsed(e + 1, RData(IF bare_end = "absent" THEN None ELSE Some(<<>>)))
       ELSE IF StartsWith(line, VALUE) THEN ParseValues(buf, 0, <<>>)
       ELSE Malformed(Protocol(None))

\* MetadumpResponse: Entry(KeyMetadata) | BadClass(msg) | Busy(msg) | End.
KeyMetadata(k, exp, la, cas, fetched, cls, size) ==
    [key |-> k, expiration |-> exp, last_access |-> la, cas |-> cas,
     fetched |-> fetched, class_id |-> cls, size |-> size]
NoMetadata == KeyMetadata(<<>>, 0, 0, 0, FALSE, 0, 0)
MEntry(km) == [type |-> "Entry", km |-> km, msg |-> <<>>]
MBadClass(m) == [type |-> "BadClass", km |-> NoMetadata, msg |-> m]
MBusy(m) == [type |-> "Busy", km |-> NoMetadata, msg |-> m]
MEnd == [type |-> "End", km |-> NoMetadata, msg |-> <<>>]

BUSY == <<"B", "U", "S", "Y", " ">>
BADCLASS == <<"B", "A", "D", "C", "L", "A", "S", "S", " ">>
MetaFields ==
    << <<"k", "e", "y", "=">>, <<"e", "x", "p", "=">>, <<"l", "a", "=">>,
       <<"c", "a", "s", "=">>, <<"f", "e", "t", "c", "h", "=">>,
       <<"c", "l", "s", "=">>, <<"s", "i", "z", "e", "=">> >>
YES == <<"y", "e", "s">>
NO == <<"n", "o">>

\* A signed decimal field.
IsSigned(s) ==
    IF s # <<>> /\ s[1] = "-" THEN IsField(Tail(s)) ELSE IsField(s)
ParseSigned(s) == IF s[1] = "-" THEN 0 - ParseNat(Tail(s)) ELSE ParseNat(s)

\* The metadump grammar, one line per response: the seven fields of an
\* entry in their order, END, BUSY <msg>, BADCLASS <msg>. A field that does
\* not parse as its type makes the line malformed.
ParseAsciiMetadumpResponse(buf) ==
    LET e == LineEnd(buf)
        line == Take(buf, e - 1)
        ws == Words(line)
        val(i) == Drop(ws[i], Len(MetaFields[i]))
    IN IF e = 0 THEN Incomplete
       ELSE IF line = END THEN Parsed(e + 1, MEnd)
       ELSE IF StartsWith(line, BUSY) THEN Parsed(e + 1, MBusy(Drop(line, Len(BUSY))))
       ELSE IF StartsWith(line, BADCLASS)
            THEN Parsed(e + 1, MBadClass(Drop(line, Len(BADCLASS))))
       ELSE IF Len(ws) # 7 THEN Malformed(Protocol(None))
       ELSE IF \E i \in 1..7 : ~StartsWith(ws[i], MetaFields[i])
            THEN Malformed(Protocol(None))
       ELSE IF val(1) = <<>> \/ ~IsSigned(val(2)) \/ ~IsSigned(val(3))
                 \/ ~IsField(val(4)) \/ val(5) \notin {YES, NO}
                 \/ ~IsField(val(6)) \/ ~IsField(val(7))
            THEN Malformed(Protocol(None))
       ELSE Parsed(e + 1, MEntry(KeyMetadata(val(1), ParseSigned(val(2)),
                                             ParseSigned(val(3)), ParseNat(val(4)),
                                             val(5) = YES, ParseNat(val(6)),
                                             ParseNat(val(7)))))

\* StatsResponse: Entry(key, value) | End.
SEntry(k, v) == [type |-> "Entry", key |-> k, value |-> v]
SEnd == [type |-> "End", key |-> <<>>, value |-> <<>>]

STAT == <<"S", "T", "A", "T", " ">>

\* The statistics grammar, one line per response: STAT <key> <value> with
\* the value the rest of the line, or END.
ParseAsciiStatsResponse(buf) ==
    LET e == LineEnd(buf)
        line == Take(buf, e - 1)
        rest == Drop(line, Len(STAT))
        sps == {i \in 1..Len(rest) : rest[i] = SP}
        sp == CHOOSE i \in sps : \A j \in sps : i <= j
    IN IF e = 0 THEN Incomplete
       ELSE IF line = END THEN Parsed(e + 1, SEnd)
       ELSE IF ~StartsWith(line, STAT) \/ sps = {} THEN Malformed(Protocol(None))
       ELSE IF sp = 1 \/ sp = Len(rest) THEN Malformed(Protocol(None))
       ELSE Parsed(e + 1, SEntry(Take(rest, sp - 1), Drop(rest, sp)))

\* ------------------------------------------------------------------- errors
\* Error: Io(kind) | Protocol(Status). A Status converts into Protocol(s).
IoError(k) == [e |-> "Io", io |-> k, status |-> Status("None")]
ProtocolError(s) == [e |-> "Protocol", io |-> "", status |-> s]
UnexpectedEof == IoError("UnexpectedEof")

\* Result<T, Error>.
Ok(v) == [ok |-> TRUE, val |-> v, err |-> ProtocolError(Status("None"))]
Err(e) == [ok |-> FALSE, val |-> <<>>, err |-> e]

\* What is recorded for a call that did not return because it panicked.
Panicked == [ok |-> FALSE, val |-> <<>>,
             err |-> [e |-> "Panic", io |-> "", status |-> Status("None")]]

\* -------------------------------------------------------------------- state
VARIABLES
    sent,      \* every byte the server has put on the connection so far
    closed,    \* the server has closed its end of the connection
    bare_end,  \* the form the parser gives a bare END: "absent" or "present"
    cl,        \* the client: its buffer, marker, transport position, cycle
    sh,        \* a second client, on a connection carrying the same bytes
    nrep,      \* how many replies the server has sent
    cmd        \* the command the caller has in progress on cl

vars == <<sent, closed, bare_end, cl, sh, nrep, cmd>>

\* Client::new: an empty buffer, no marker. pc is the place of the client in
\* drive_receive; rpos counts the bytes the transport has handed over. The
\* fields from cycles on record history: the cycles begun, what each cycle
\* returned (with the consumed count it recorded) or that it panicked, the
\* marker the current cycle found, whether a read of the current cycle gave
\* zero bytes, the bytes dropped, whether the current cycle has read from the
\* transport.
NewClient ==
    [buf |-> <<>>, last_read_n |-> None, needs_more_data |-> FALSE,
     pc |-> "idle", op |-> "response", rpos |-> 0, ret |-> Ok(<<>>),
     cycles |-> 0, log |-> <<>>, start_n |-> None, zero_read |-> FALSE,
     dropped |-> 0, has_read |-> FALSE]

\* The parser a cycle was called with.
ParseWith(op, buf) ==
    CASE op = "response" -> ParseAsciiResponse(buf, bare_end)
      [] op = "metadump" -> ParseAsciiMetadumpResponse(buf)
      [] op = "stats" -> ParseAsciiStatsResponse(buf)

\* ----------------------------------------------------------- drive_receive
\* BytesMut::split_to(n) panics when n exceeds the length.
SplitToPanics(buf, n) == n > Len(buf)
SplitTo(buf, n) == Drop(buf, n)

\* The start of a cycle: the marker is applied (it is whatever the last
\* successful parse recorded: no return path clears it), then the loop is
\* entered with needs_more_data unset.
DriveBegin(c, op) ==
    IF IsSome(c.last_read_n) /\ SplitToPanics(c.buf, Unwrap(c.last_read_n))
    THEN [c EXCEPT !.pc = "panicked", !.cycles = @ + 1,
                   !.start_n = c.last_read_n, !.zero_read = FALSE,
                   !.has_read = FALSE,
                   !.log = Append(@, [ret |-> Panicked, n |-> None])]
    ELSE [c EXCEPT !.buf = IF IsSome(c.last_read_n)
                            THEN SplitTo(c.buf, Unwrap(c.last_read_n)) ELSE @,
                   !.dropped = IF IsSome(c.last_read_n)
                               THEN @ + Unwrap(c.last_read_n) ELSE @,
                   !.needs_more_data = FALSE,
                   !.pc = "loop", !.op = op,
                   !.cycles = @ + 1, !.start_n = c.last_read_n,
                   !.zero_read = FALSE, !.has_read = FALSE]

\* A slip: the loop reads before every parser attempt.
NeedsReadAlways(c) == TRUE

\* The loop reads before it parses when the buffer is empty or the last
\* attempt was incomplete.
NeedsRead(c) == c.buf = <<>> \/ c.needs_more_data

\* The cycle returns r to its caller.
DriveReturn(c, r) ==
    [c EXCEPT !.pc = "ret", !.ret = r,
              !.log = Append(@, [ret |-> r,
                                 n |-> IF r.ok THEN c.last_read_n ELSE None])]

\* A slip: a read of zero bytes taken for an empty response.
OnReadZeroAsEmptyResponse(c, n, chunk) ==
    IF n = 0
    THEN DriveReturn([c EXCEPT !.zero_read = TRUE, !.has_read = TRUE,
                               !.last_read_n = Some(0)],
                     Ok(RData(None)))
    ELSE [c EXCEPT !.buf = @ \o chunk, !.rpos = @ + n, !.pc = "parse",
                   !.has_read = TRUE]

\* A slip: a read of zero bytes taken for a read that needs a retry.
OnReadZeroAsRetry(c, n, chunk) ==
    [c EXCEPT !.buf = @ \o chunk, !.rpos = @ + n, !.pc = "parse",
              !.zero_read = (n = 0), !.has_read = TRUE]

\* read_buf gave n bytes (chunk): zero bytes end the cycle with
\* UnexpectedEof, otherwise the bytes are appended and the parser is offered
\* the buffer.
OnRead(c, n, chunk) ==
    IF n = 0
    THEN DriveReturn([c EXCEPT !.zero_read = TRUE, !.has_read = TRUE],
                     Err(UnexpectedEof))
    ELSE [c EXCEPT !.buf = @ \o chunk, !.rpos = @ + n, !.pc = "parse",
                   !.has_read = TRUE]

\* A slip: an incomplete parse that empties the buffer.
OnParseIncompleteClears(c, o) ==
    CASE o.kind = "Parsed" ->
           DriveReturn([c EXCEPT !.last_read_n = Some(o.n)], Ok(o.resp))
      [] o.kind = "Incomplete" ->
           [c EXCEPT !.needs_more_data = TRUE, !.pc = "loop", !.buf = <<>>]
      [] o.kind = "Malformed" ->
           DriveReturn(c, Err(ProtocolError(StatusError(o.err))))

\* The outcome of op(&self.buf).
OnParse(c, o) ==
    CASE o.kind = "Parsed" ->
           DriveReturn([c EXCEPT !.last_read_n = Some(o.n)], Ok(o.resp))
      [] o.kind = "Incomplete" ->
           [c EXCEPT !.needs_more_data = TRUE, !.pc = "loop"]
      [] o.kind = "Malformed" ->
           DriveReturn(c, Err(ProtocolError(StatusError(o.err))))

\* The bytes the transport can hand to c now.
Avail(c) == Len(sent) - c.rpos

\* One read of the loop: any positive number of the available bytes, or zero
\* bytes once the stream is closed and drained. It waits otherwise.
ReadStep(c, d) ==
    /\ c.pc = "loop" /\ NeedsRead(c)
    /\ \/ \E n \in 1..Avail(c) :
             d = OnRead(c, n, SubSeq(sent, c.rpos + 1, c.rpos + n))
       \/ /\ Avail(c) = 0 /\ closed
          /\ d = OnRead(c, 0, <<>>)

\* One parser attempt of the loop.
ParseStep(c, d) ==
    /\ \/ c.pc = "parse"
       \/ c.pc = "loop" /\ ~NeedsRead(c)
    /\ d = OnParse(c, ParseWith(c.op, c.buf))

\* ------------------------------------------------------------------- server
Line(s) == s \o CRLF
ValueBlock(k, f, d) ==
    Line(VALUE \o k \o <<SP>> \o f \o <<SP, Digits[Len(d) + 1]>>) \o Line(d)

\* The server puts the bytes of one reply on the connection.
ServerSend(r) ==
    /\ ~closed /\ nrep < MaxReplies
    /\ sent' = sent \o r
    /\ nrep' = nrep + 1
    /\ UNCHANGED <<closed, bare_end, cl, sh, cmd>>

\* The server closes the connection, possibly after the first bytes of a
\* reply it never completes.
ServerClose(partial) ==
    /\ ~closed
    /\ sent' = sent \o partial
    /\ closed' = TRUE
    /\ UNCHANGED <<bare_end, cl, sh, nrep, cmd>>

\* ----------------------------------------------------------------- caller
\* The command in progress: its name and arguments, its place (pc), the
\* frames it has written and the flushes it has made, the responses it has
\* driven, the per-key results of set_multi, and what it returned. seq counts
\* the commands issued on the connection and nreq the request frames flushed
\* to the server. done is the flag of the metadump cursor the command
\* returned, and pulled what each pull on it returned. line is the line
\* version read, keys the keys a single-frame command was called with.
NoCommand ==
    [name |-> "none", pc |-> "done", kv |-> <<>>, out |-> <<>>, flushes |-> 0,
     driven |-> <<>>, j |-> 0, results |-> <<>>, ret |-> Ok(<<>>), seq |-> 0,
     nreq |-> 0, done |-> FALSE, pulled |-> <<>>, line |-> <<>>, keys |-> <<>>]

\* ------------------------------------------------------- streaming harness
\* Two clients are given the same byte stream, which the server has sent in
\* full before it closed. Each calls drive_receive(parse_ascii_response) again
\* and again. The transport of the first splits the stream into reads of any
\* sizes; the transport of the second hands over all the bytes in one read.
Client(w) == IF w = 1 THEN cl ELSE sh
SetClient(w, d) ==
    IF w = 1 THEN cl' = d /\ sh' = sh ELSE sh' = d /\ cl' = cl

StreamReplies ==
    {Line(STORED), Line(<<"7", "7">>), Line(<<"?">>),
     ValueBlock(<<"k">>, <<"0">>, <<"v">>) \o Line(END)}
StreamPartials == {<<>>, <<"S", "T">>}

\* The streams of at most k replies.
RECURSIVE Streams(_)
Streams(k) ==
    IF k = 0 THEN {<<>>}
    ELSE Streams(k - 1) \cup {s \o r : s \in Streams(k - 1), r \in StreamReplies}

StreamCall(w) ==
    /\ Client(w).pc \in {"idle", "ret"}
    /\ Client(w).cycles < MaxCycles
    /\ SetClient(w, DriveBegin(Client(w), "response"))
    /\ UNCHANGED <<sent, closed, bare_end, nrep, cmd>>

\* A read of the first client: any split.
StreamRead ==
    /\ \E d \in {OnRead(cl, n, SubSeq(sent, cl.rpos + 1, cl.rpos + n)) :
                   n \in 0..Avail(cl)} :
          /\ ReadStep(cl, d)
          /\ cl' = d
    /\ UNCHANGED <<sent, closed, bare_end, nrep, sh, cmd>>

\* A read of the second client: everything there is.
StreamReadWhole ==
    /\ ReadStep(sh, OnRead(sh, Avail(sh), Drop(sent, sh.rpos)))
    /\ sh' = OnRead(sh, Avail(sh), Drop(sent, sh.rpos))
    /\ UNCHANGED <<sent, closed, bare_end, nrep, cl, cmd>>

StreamParse(w) ==
    /\ ParseStep(Client(w), OnParse(Client(w), ParseWith(Client(w).op, Client(w).buf)))
    /\ SetClient(w, OnParse(Client(w), ParseWith(Client(w).op, Client(w).buf)))
    /\ UNCHANGED <<sent, closed, bare_end, nrep, cmd>>

InitStream ==
    /\ sent \in {s \o p : s \in Streams(MaxReplies), p \in StreamPartials}
    /\ closed = TRUE /\ nrep = 0
    /\ bare_end = "absent"
    /\ cl = NewClient /\ sh = NewClient
    /\ cmd = NoCommand

NextStream ==
    \/ \E w \in {1, 2} : StreamCall(w)
    \/ StreamRead
    \/ StreamReadWhole
    \/ \E w \in {1, 2} : StreamParse(w)

SpecStream == InitStream /\ [][NextStream]_vars

\* C1: streaming invariance of the drive loop. What the k-th drive_receive
\* call does (the typed response it returns and the consumed count recorded
\* with it, or the error it returns, or that it crashes) is the same however
\* the transport splits the stream into reads.
SameResponses(a, b) ==
    \A k \in 1..Len(a.log) : k <= Len(b.log) => a.log[k] = b.log[k]
StreamingInvariance == SameResponses(cl, sh)

\* The stream 77 ? 77: the first call returns 77 with count 4 and the second
\* the protocol error to both clients; the third call returns the number 7 to
\* the client that got everything in one read, and panics in split_to for
\* the client that had read no further than the malformed line.
StreamingDivergence ==
    /\ sent = Line(<<"7", "7">>) \o Line(<<"?">>) \o Line(<<"7", "7">>)
    /\ Len(cl.log) = 3 /\ Len(sh.log) = 3
    /\ cl.log[1] = sh.log[1] /\ cl.log[1].ret.ok /\ cl.log[1].n = Some(4)
    /\ cl.log[2] = sh.log[2]
    /\ cl.log[2].ret = Err(ProtocolError(StatusError(Protocol(None))))
    /\ sh.log[3].ret.ok /\ sh.log[3].ret.val.type = "IncrDecr"
    /\ cl.log[3].ret = Panicked

\* ----------------------------------------------------------- request frames
GET_ == <<"g", "e", "t", " ">>
SET_ == <<"s", "e", "t", " ">>
ADD_ == <<"a", "d", "d", " ">>
DELETE_ == <<"d", "e", "l", "e", "t", "e", " ">>
INCR_ == <<"i", "n", "c", "r", " ">>
DECR_ == <<"d", "e", "c", "r", " ">>

\* to_string of a small unsigned number.
RECURSIVE ToDecimal(_)
ToDecimal(n) ==
    IF n < 10 THEN <<Digits[n + 1]>>
    ELSE ToDecimal(n \div 10) \o <<Digits[(n % 10) + 1]>>

UnwrapOr(o, d) == IF IsSome(o) THEN Unwrap(o) ELSE d

\* get: "get ", the key, the line break.
GetFrame(key) == GET_ \o key \o CRLF

\* get_many: "get ", then every key followed by a space, then the line break.
RECURSIVE KeysThenSpace(_)
KeysThenSpace(keys) ==
    IF keys = <<>> THEN <<>>
    ELSE keys[1] \o <<SP>> \o KeysThenSpace(Tail(keys))
GetManyFrame(keys) == GET_ \o KeysThenSpace(keys) \o CRLF

\* set, add and each frame of set_multi:
\* <verb> <key> <flags> <ttl> <length>\r\n<payload>\r\n
StoreFrame(verb, key, value, ttl, flags) ==
    verb \o key \o <<SP>> \o ToDecimal(UnwrapOr(flags, 0))
         \o <<SP>> \o ToDecimal(UnwrapOr(ttl, 0))
         \o <<SP>> \o ToDecimal(Len(value)) \o CRLF
         \o value \o CRLF

DeleteFrame(key) == DELETE_ \o key \o CRLF
IncrDecrFrame(verb, key, amount) ==
    verb \o key \o <<SP>> \o ToDecimal(amount) \o CRLF

\* The no-reply frames: the same, with " noreply" before the first line break.
NOREPLY == <<" ", "n", "o", "r", "e", "p", "l", "y">>
StoreFrameNoReply(verb, key, value, ttl, flags) ==
    verb \o key \o <<SP>> \o ToDecimal(UnwrapOr(flags, 0))
         \o <<SP>> \o ToDecimal(UnwrapOr(ttl, 0))
         \o <<SP>> \o ToDecimal(Len(value)) \o NOREPLY \o CRLF
         \o value \o CRLF
DeleteFrameNoReply(key) == DELETE_ \o key \o NOREPLY \o CRLF
IncrDecrFrameNoReply(verb, key, amount) ==
    verb \o key \o <<SP>> \o ToDecimal(amount) \o NOREPLY \o CRLF

\* ------------------------------------------------ responses into results
\* Status::Error(ErrorKind::Protocol(None)) as an Error.
UnexpectedResponse == ProtocolError(StatusError(Protocol(None)))
Unit == <<>>

\* get: the match on the driven response.
GetResult(r) ==
    IF r.type = "Status" /\ r.status = Status("NotFound") THEN Ok(None)
    ELSE IF r.type = "Status" THEN Err(ProtocolError(r.status))
    ELSE IF r.type = "Data"
         THEN IF ~IsSome(r.data) THEN Ok(None)
              ELSE IF Len(Unwrap(r.data)) # 1 THEN Err(UnexpectedResponse)
              ELSE Ok(Some(Unwrap(r.data)[1]))
    ELSE Err(UnexpectedResponse)

\* A slip: an absent Data taken for an empty result.
GetManyResultAbsentAsEmpty(r) ==
    IF r.type = "Status" THEN Err(ProtocolError(r.status))
    ELSE IF r.type = "Data"
         THEN IF IsSome(r.data) THEN Ok(Unwrap(r.data)) ELSE Ok(<<>>)
    ELSE Err(UnexpectedResponse)

\* get_many: the match on the driven response.
GetManyResult(r) ==
    IF r.type = "Status" THEN Err(ProtocolError(r.status))
    ELSE IF r.type = "Data"
         THEN IF IsSome(r.data) THEN Ok(Unwrap(r.data))
              ELSE Err(ProtocolError(Status("NotFound")))
    ELSE Err(UnexpectedResponse)

\* A slip: every status taken for success.
StoreResultAnyStatus(r) ==
    IF r.type = "Status" THEN Ok(Unit)
    ELSE Err(UnexpectedResponse)

\* set and add: the match on the driven response.
StoreResult(r) ==
    IF r.type = "Status" /\ r.status = Status("Stored") THEN Ok(Unit)
    ELSE IF r.type = "Status" THEN Err(ProtocolError(r.status))
    ELSE Err(UnexpectedResponse)

\* delete: the match on the driven response.
DeleteResult(r) ==
    IF r.type = "Status" /\ r.status = Status("Deleted") THEN Ok(Unit)
    ELSE IF r.type = "Status" THEN Err(ProtocolError(r.status))
    ELSE Err(UnexpectedResponse)

\* A slip: the number narrowed to 32 bits.
IncrDecrResultAs32Bits(r) ==
    IF r.type = "Status" THEN Err(ProtocolError(r.status))
    ELSE IF r.type = "IncrDecr" THEN Ok(<<0, 0, r.value[3], r.value[4]>>)
    ELSE Err(UnexpectedResponse)

\* increment and decrement: the match on the driven response.
IncrDecrResult(r) ==
    IF r.type = "Status" THEN Err(ProtocolError(r.status))
    ELSE IF r.type = "IncrDecr" THEN Ok(r.value)
    ELSE Err(UnexpectedResponse)

\* filter_set_multi_responses: the per-key result of a driven response.
SetMultiKeyResult(r) ==
    IF r.type = "Status" /\ r.status = Status("Stored") THEN Ok(RStatus(Status("Stored")))
    ELSE IF r.type = "Status" THEN Err(ProtocolError(r.status))
    ELSE Err(UnexpectedResponse)

\* The result of a single-response command from what its cycle returned: an
\* error of the cycle is passed on (the ? after the await).
Interpret(name, d) ==
    IF ~d.ok THEN Err(d.err)
    ELSE CASE name = "get" -> GetResult(d.val)
           [] name = "get_many" -> GetManyResult(d.val)
           [] name \in {"set", "add"} -> StoreResult(d.val)
           [] name = "delete" -> DeleteResult(d.val)
           [] name \in {"increment", "decrement"} -> IncrDecrResult(d.val)

\* A slip: an insert that keeps the value a key already has.
InsertIfAbsent(m, k, v) ==
    [x \in (DOMAIN m) \cup {k} |-> IF x \in DOMAIN m THEN m[x] ELSE v]

\* HashMap::insert.
Insert(m, k, v) == [x \in (DOMAIN m) \cup {k} |-> IF x = k THEN v ELSE m[x]]
EmptyMap == <<>>

\* ----------------------------------------------------------------- commands
Keys == {<<"a">>, <<"b">>}
Payload == <<"v">>
Amounts == {1}
\* The key sequences get_many is called with.
KeySeqs == {<<<<"a">>>>, <<<<"a">>, <<"b">>>>, <<<<"b">>, <<"a">>, <<"b">>>>}

\* The key-value sequences of at most n pairs.
RECURSIVE PairSeqs(_)
PairSeqs(n) ==
    IF n = 0 THEN {<<>>}
    ELSE PairSeqs(n - 1)
         \cup {Append(q, <<k, Payload>>) : q \in PairSeqs(n - 1), k \in Keys}

\* The caller may issue a command when none is in progress.
CanCall == cmd.pc = "done" /\ cl.pc \in {"idle", "ret"}

\* A command that writes one frame, flushes, and drives one response: what
\* it does up to its first await inside drive_receive.
Issue(name, keys, frame) ==
    /\ CanCall /\ cmd.seq < MaxCommands
    /\ cmd' = [NoCommand EXCEPT !.name = name, !.pc = "driving", !.keys = keys,
                                !.out = <<frame>>, !.flushes = 1,
                                !.seq = cmd.seq + 1, !.nreq = cmd.nreq + 1]
    /\ cl' = DriveBegin(cl, "response")
    /\ UNCHANGED <<sent, closed, bare_end, sh, nrep>>

Get(key) == Issue("get", <<key>>, GetFrame(key))
GetMany(keys) == Issue("get_many", keys, GetManyFrame(keys))
Set(key, value, ttl, flags) ==
    Issue("set", <<key>>, StoreFrame(SET_, key, value, ttl, flags))
Add(key, value, ttl, flags) ==
    Issue("add", <<key>>, StoreFrame(ADD_, key, value, ttl, flags))
Delete(key) == Issue("delete", <<key>>, DeleteFrame(key))
Increment(key, amount) ==
    Issue("increment", <<key>>, IncrDecrFrame(INCR_, key, amount))
Decrement(key, amount) ==
    Issue("decrement", <<key>>, IncrDecrFrame(DECR_, key, amount))

\* A slip: a no-reply command that waits for the reply.
IssueNoReplyDrives(name, frame) ==
    /\ CanCall /\ cmd.seq < MaxCommands + MaxNoReply
    /\ cmd' = [NoCommand EXCEPT !.name = name, !.pc = "driving",
                                !.out = <<frame>>, !.flushes = 1,
                                !.seq = cmd.seq + 1, !.nreq = cmd.nreq]
    /\ cl' = DriveBegin(cl, "response")
    /\ UNCHANGED <<sent, closed, bare_end, sh, nrep>>

\* A no-reply command: it writes one frame, flushes, and returns Ok(()).
IssueNoReply(name, frame) ==
    /\ CanCall /\ cmd.seq < MaxCommands + MaxNoReply
    /\ cmd' = [NoCommand EXCEPT !.name = name, !.out = <<frame>>, !.flushes = 1,
                                !.ret = Ok(Unit),
                                !.seq = cmd.seq + 1, !.nreq = cmd.nreq]
    /\ UNCHANGED <<sent, closed, bare_end, cl, sh, nrep>>

SetNoReply(key, value, ttl, flags) ==
    IssueNoReply("set_no_reply", StoreFrameNoReply(SET_, key, value, ttl, flags))
DeleteNoReply(key) == IssueNoReply("delete_no_reply", DeleteFrameNoReply(key))
IncrementNoReply(key, amount) ==
    IssueNoReply("increment_no_reply", IncrDecrFrameNoReply(INCR_, key, amount))
DecrementNoReply(key, amount) ==
    IssueNoReply("decrement_no_reply", IncrDecrFrameNoReply(DECR_, key, amount))

\* The cycle of a single-response command returned: the command matches on
\* what it got and returns.
Finish ==
    /\ cmd.pc = "driving" /\ cl.pc = "ret"
    /\ cmd.name \in {"get", "get_many", "set", "add", "delete", "increment", "decrement"}
    /\ cmd' = [cmd EXCEPT !.pc = "done", !.driven = Append(@, cl.ret),
                          !.ret = Interpret(cmd.name, cl.ret)]
    /\ UNCHANGED <<sent, closed, bare_end, cl, sh, nrep>>

\* set_multi: an empty input returns an empty mapping at once; otherwise the
\* frames are written one after the other.
SetMulti(kv, ttl, flags) ==
    /\ CanCall
    /\ cmd' = IF kv = <<>>
              THEN [NoCommand EXCEPT !.name = "set_multi", !.ret = Ok(EmptyMap),
                                     !.seq = cmd.seq + 1, !.nreq = cmd.nreq]
              ELSE [NoCommand EXCEPT !.name = "set_multi", !.pc = "writing",
                                     !.kv = kv, !.seq = cmd.seq + 1,
                                     !.nreq = cmd.nreq]
    /\ UNCHANGED <<sent, closed, bare_end, cl, sh, nrep>>

\* set_multi writes the frame of the next pair.
SetMultiWrite(ttl, flags) ==
    /\ cmd.name = "set_multi" /\ cmd.pc = "writing"
    /\ Len(cmd.out) < Len(cmd.kv)
    /\ LET p == cmd.kv[Len(cmd.out) + 1]
       IN cmd' = [cmd EXCEPT !.out = Append(@, StoreFrame(SET_, p[1], p[2], ttl, flags))]
    /\ UNCHANGED <<sent, closed, bare_end, cl, sh, nrep>>

\* A slip: the flush made as soon as one frame is written.
SetMultiFlushAfterFirstFrame ==
    /\ cmd.name = "set_multi" /\ cmd.pc = "writing"
    /\ Len(cmd.out) >= 1
    /\ cmd' = [cmd EXCEPT !.flushes = @ + 1, !.pc = "filter", !.results = EmptyMap,
                          !.nreq = @ + Len(cmd.out)]
    /\ UNCHANGED <<sent, closed, bare_end, cl, sh, nrep>>

\* set_multi flushes after the last frame and enters
\* filter_set_multi_responses with an empty mapping.
SetMultiFlush ==
    /\ cmd.name = "set_multi" /\ cmd.pc = "writing"
    /\ Len(cmd.out) = Len(cmd.kv)
    /\ cmd' = [cmd EXCEPT !.flushes = @ + 1, !.pc = "filter", !.results = EmptyMap,
                          !.nreq = @ + Len(cmd.out)]
    /\ UNCHANGED <<sent, closed, bare_end, cl, sh, nrep>>

\* A slip: the loop over the pairs leaves out the last pair.
SetMultiNextStopsEarly ==
    /\ cmd.name = "set_multi" /\ cmd.pc = "filter"
    /\ IF cmd.j < Len(cmd.kv) - 1
       THEN /\ cl' = DriveBegin(cl, "response")
            /\ cmd' = [cmd EXCEPT !.pc = "driving"]
       ELSE /\ cmd' = [cmd EXCEPT !.pc = "done", !.ret = Ok(cmd.results)]
            /\ cl' = cl
    /\ UNCHANGED <<sent, closed, bare_end, sh, nrep>>

\* filter_set_multi_responses: the loop over the pairs drives a response for
\* the next key, or returns the mapping when no pair is left.
SetMultiNext ==
    /\ cmd.name = "set_multi" /\ cmd.pc = "filter"
    /\ IF cmd.j < Len(cmd.kv)
       THEN /\ cl' = DriveBegin(cl, "response")
            /\ cmd' = [cmd EXCEPT !.pc = "driving"]
       ELSE /\ cmd' = [cmd EXCEPT !.pc = "done", !.ret = Ok(cmd.results)]
            /\ cl' = cl
    /\ UNCHANGED <<sent, closed, bare_end, sh, nrep>>

\* A slip: the result of every key inserted, Stored included.
SetMultiCorrelateInsertsStored ==
    /\ cmd.name = "set_multi" /\ cmd.pc = "driving" /\ cl.pc = "ret"
    /\ LET key == cmd.kv[cmd.j + 1][1]
           c == [cmd EXCEPT !.driven = Append(@, cl.ret), !.j = @ + 1]
       IN cmd' = IF ~cl.ret.ok
                 THEN [c EXCEPT !.pc = "done", !.ret = Err(cl.ret.err)]
                 ELSE [c EXCEPT !.pc = "filter",
                                !.results = Insert(@, key, SetMultiKeyResult(cl.ret.val))]
    /\ UNCHANGED <<sent, closed, bare_end, cl, sh, nrep>>

\* A slip: the first failed key ends the command with its error.
SetMultiCorrelateAbortsOnFailure ==
    /\ cmd.name = "set_multi" /\ cmd.pc = "driving" /\ cl.pc = "ret"
    /\ LET key == cmd.kv[cmd.j + 1][1]
           c == [cmd EXCEPT !.driven = Append(@, cl.ret), !.j = @ + 1]
       IN cmd' = IF ~cl.ret.ok
                 THEN [c EXCEPT !.pc = "done", !.ret = Err(cl.ret.err)]
                 ELSE IF SetMultiKeyResult(cl.ret.val) = Ok(RStatus(Status("Stored")))
                 THEN [c EXCEPT !.pc = "filter"]
                 ELSE [c EXCEPT !.pc = "done",
                                !.ret = Err(SetMultiKeyResult(cl.ret.val).err)]
    /\ UNCHANGED <<sent, closed, bare_end, cl, sh, nrep>>

\* filter_set_multi_responses: the cycle for the current key returned. An
\* error of the cycle ends the command; Stored is skipped; anything else is
\* inserted under the key.
SetMultiCorrelate ==
    /\ cmd.name = "set_multi" /\ cmd.pc = "driving" /\ cl.pc = "ret"
    /\ LET key == cmd.kv[cmd.j + 1][1]
           c == [cmd EXCEPT !.driven = Append(@, cl.ret), !.j = @ + 1]
       IN cmd' = IF ~cl.ret.ok
                 THEN [c EXCEPT !.pc = "done", !.ret = Err(cl.ret.err)]
                 ELSE IF SetMultiKeyResult(cl.ret.val) = Ok(RStatus(Status("Stored")))
                 THEN [c EXCEPT !.pc = "filter"]
                 ELSE [c EXCEPT !.pc = "filter",
                                !.results = Insert(@, key, SetMultiKeyResult(cl.ret.val))]
    /\ UNCHANGED <<sent, closed, bare_end, cl, sh, nrep>>

\* ------------------------------------------------------------------ version
VERSION_FRAME == <<"v", "e", "r", "s", "i", "o", "n">> \o CRLF
\* The grave accent, byte 0x60.
Grave == "<60>"
INVALID_VERSION ==
    <<"I", "n", "v", "a", "l", "i", "d", " ", "r", "e", "s", "p", "o", "n", "s", "e",
      " ", "f", "o", "r", " ", Grave, "v", "e", "r", "s", "i", "o", "n", Grave,
      " ", "c", "o", "m", "m", "a", "n", "d", ":", " ", Grave>>

\* The bytes of a string are one per character, but for a two-byte character
\* written as its lead byte and its continuation byte.
LeadByte == "<C3>"
ContinuationByte == "<A9>"
IsCharBoundary(str, i) ==
    i = 0 \/ i = Len(str) \/ (i < Len(str) /\ str[i + 1] # ContinuationByte)

\* read_line on what the connection has to give: the bytes up to and with
\* the first line feed, or all the bytes left when the stream has ended
\* before one.
HasLine(stream) == \E i \in 1..Len(stream) : stream[i] = LF
ReadLine(stream) ==
    IF HasLine(stream)
    THEN Take(stream, CHOOSE i \in 1..Len(stream) :
                         stream[i] = LF /\ \A j \in 1..(i - 1) : stream[j] # LF)
    ELSE stream

\* version: the header is peeled off a line of 8 bytes or more.
VersionResult(version) ==
    IF Len(version) >= 8 /\ IsCharBoundary(version, 8)
    THEN Ok(Drop(version, 8))
    ELSE Err(ProtocolError(StatusError(Protocol(Some(
             INVALID_VERSION \o version \o <<Grave>>)))))

\* version: writes the frame and flushes.
Version ==
    /\ CanCall /\ cmd.seq < MaxCommands
    /\ cmd' = [NoCommand EXCEPT !.name = "version", !.pc = "reading",
                                !.out = <<VERSION_FRAME>>, !.flushes = 1,
                                !.seq = cmd.seq + 1, !.nreq = cmd.nreq + 1]
    /\ UNCHANGED <<sent, closed, bare_end, cl, sh, nrep>>

\* version: read_line has a line from the connection (not from the
\* client's buffer), and the command returns.
VersionReadLine ==
    /\ cmd.name = "version" /\ cmd.pc = "reading"
    /\ HasLine(Drop(sent, cl.rpos)) \/ closed
    /\ LET version == ReadLine(Drop(sent, cl.rpos))
       IN /\ cmd' = [cmd EXCEPT !.pc = "done", !.line = version,
                                !.ret = VersionResult(version)]
          /\ cl' = [cl EXCEPT !.rpos = @ + Len(version)]
    /\ UNCHANGED <<sent, closed, bare_end, sh, nrep>>

\* ------------------------------------------------------ dump_keys, cursor
LRU_CRAWLER_METADUMP_ALL ==
    <<"l", "r", "u", "_", "c", "r", "a", "w", "l", "e", "r", " ",
      "m", "e", "t", "a", "d", "u", "m", "p", " ", "a", "l", "l">> \o CRLF

\* MetadumpResponse::BadClass / Busy as the Status of an Error.
MetadumpStatus(r) == StatusError([k |-> r.type, msg |-> r.msg])

\* dump_keys: writes the frame, flushes, and returns the cursor, not done.
DumpKeys ==
    /\ CanCall /\ cmd.seq < MaxCommands
    /\ cmd' = [NoCommand EXCEPT !.name = "dump_keys", !.pc = "cursor",
                                !.out = <<LRU_CRAWLER_METADUMP_ALL>>, !.flushes = 1,
                                !.done = FALSE, !.ret = Ok(Unit),
                                !.seq = cmd.seq + 1, !.nreq = cmd.nreq + 1]
    /\ UNCHANGED <<sent, closed, bare_end, cl, sh, nrep>>

\* A slip: a pull that drives a response whatever the flag says.
MetadumpNextIgnoresDone ==
    /\ cmd.name = "dump_keys" /\ cmd.pc = "cursor"
    /\ Len(cmd.pulled) < MaxPulls
    /\ cl' = DriveBegin(cl, "metadump")
    /\ cmd' = [cmd EXCEPT !.pc = "driving"]
    /\ UNCHANGED <<sent, closed, bare_end, sh, nrep>>

\* MetadumpIter::next, up to its await: a done cursor returns None at once,
\* another drives one metadump response.
MetadumpNext ==
    /\ cmd.name = "dump_keys" /\ cmd.pc = "cursor"
    /\ Len(cmd.pulled) < MaxPulls
    /\ IF cmd.done
       THEN /\ cmd' = [cmd EXCEPT !.pulled = Append(@, None)]
            /\ cl' = cl
       ELSE /\ cl' = DriveBegin(cl, "metadump")
            /\ cmd' = [cmd EXCEPT !.pc = "driving"]
    /\ UNCHANGED <<sent, closed, bare_end, sh, nrep>>

\* What a pull returns for what its cycle returned, and the flag after it.
PullResult(d) ==
    IF ~d.ok THEN Some(Err(d.err))
    ELSE CASE d.val.type = "End" -> None
           [] d.val.type = "BadClass" -> Some(Err(ProtocolError(MetadumpStatus(d.val))))
           [] d.val.type = "Busy" -> Some(Err(ProtocolError(MetadumpStatus(d.val))))
           [] d.val.type = "Entry" -> Some(Ok(d.val.km))
PullDone(d) == d.ok /\ d.val.type \in {"End", "BadClass"}

\* A slip: End returns None and leaves the cursor open.
MetadumpNextReturnEndStaysOpen ==
    /\ cmd.name = "dump_keys" /\ cmd.pc = "driving" /\ cl.pc = "ret"
    /\ cmd' = [cmd EXCEPT !.pc = "cursor", !.driven = Append(@, cl.ret),
                          !.pulled = Append(@, PullResult(cl.ret)),
                          !.done = cl.ret.ok /\ cl.ret.val.type = "BadClass"]
    /\ UNCHANGED <<sent, closed, bare_end, cl, sh, nrep>>

\* A slip: BadClass returns its error and leaves the cursor open.
MetadumpNextReturnBadClassStaysOpen ==
    /\ cmd.name = "dump_keys" /\ cmd.pc = "driving" /\ cl.pc = "ret"
    /\ cmd' = [cmd EXCEPT !.pc = "cursor", !.driven = Append(@, cl.ret),
                          !.pulled = Append(@, PullResult(cl.ret)),
                          !.done = cl.ret.ok /\ cl.ret.val.type = "End"]
    /\ UNCHANGED <<sent, closed, bare_end, cl, sh, nrep>>

\* MetadumpIter::next, after its await: the match on what the cycle returned.
MetadumpNextReturn ==
    /\ cmd.name = "dump_keys" /\ cmd.pc = "driving" /\ cl.pc = "ret"
    /\ cmd' = [cmd EXCEPT !.pc = "cursor", !.driven = Append(@, cl.ret),
                          !.pulled = Append(@, PullResult(cl.ret)),
                          !.done = PullDone(cl.ret)]
    /\ UNCHANGED <<sent, closed, bare_end, cl, sh, nrep>>

\* -------------------------------------------------------------------- stats
STATS_FRAME == <<"s", "t", "a", "t", "s">> \o CRLF

\* stats: an empty mapping, the frame, the flush, and the first cycle begun.
Stats ==
    /\ CanCall /\ cmd.seq < MaxCommands
    /\ cmd' = [NoCommand EXCEPT !.name = "stats", !.pc = "driving",
                                !.out = <<STATS_FRAME>>, !.flushes = 1,
                                !.results = EmptyMap,
                                !.seq = cmd.seq + 1, !.nreq = cmd.nreq + 1]
    /\ cl' = DriveBegin(cl, "stats")
    /\ UNCHANGED <<sent, closed, bare_end, sh, nrep>>

\* A slip: an error ends the loop with the entries collected so far.
StatsNextPartialOnError ==
    /\ cmd.name = "stats" /\ cmd.pc = "driving" /\ cl.pc = "ret"
    /\ IF cl.ret.ok /\ cl.ret.val.type = "Entry"
       THEN /\ cmd' = [cmd EXCEPT !.driven = Append(@, cl.ret),
                                  !.results = Insert(@, cl.ret.val.key,
                                                     cl.ret.val.value)]
            /\ cl' = DriveBegin(cl, "stats")
       ELSE /\ cmd' = [cmd EXCEPT !.pc = "done", !.driven = Append(@, cl.ret),
                                  !.ret = Ok(cmd.results)]
            /\ cl' = cl
    /\ UNCHANGED <<sent, closed, bare_end, sh, nrep>>

\* stats, one turn of its while-let: an error returns it, an Entry is
\* inserted and the next cycle begun, End returns the mapping.
StatsNext ==
    /\ cmd.name = "stats" /\ cmd.pc = "driving" /\ cl.pc = "ret"
    /\ IF ~cl.ret.ok
       THEN /\ cmd' = [cmd EXCEPT !.pc = "done", !.driven = Append(@, cl.ret),
                                  !.ret = Err(cl.ret.err)]
            /\ cl' = cl
       ELSE IF cl.ret.val.type = "Entry"
       THEN /\ cmd' = [cmd EXCEPT !.driven = Append(@, cl.ret),
                                  !.results = Insert(@, cl.ret.val.key,
                                                     cl.ret.val.value)]
            /\ cl' = DriveBegin(cl, "stats")
       ELSE /\ cmd' = [cmd EXCEPT !.pc = "done", !.driven = Append(@, cl.ret),
                                  !.ret = Ok(cmd.results)]
            /\ cl' = cl
    /\ UNCHANGED <<sent, closed, bare_end, sh, nrep>>

\* The cursor is dropped: its borrow of the client ends, and the caller may
\* issue a command again.
CursorDrop ==
    /\ cmd.name = "dump_keys" /\ cmd.pc = "cursor"
    /\ cmd' = [cmd EXCEPT !.pc = "done"]
    /\ UNCHANGED <<sent, closed, bare_end, cl, sh, nrep>>

\* The sizes of the reads the transport of a command makes of n available
\* bytes: all of them, or all but the last one.
ReadSizes(n) == {n, n - 1} \cap (0..n)

\* The steps of the cycle a command is waiting for.
Read ==
    /\ cmd.pc = "driving"
    /\ \E d \in {OnRead(cl, n, SubSeq(sent, cl.rpos + 1, cl.rpos + n)) :
                   n \in ReadSizes(Avail(cl))} :
          /\ ReadStep(cl, d)
          /\ cl' = d
    /\ UNCHANGED <<sent, closed, bare_end, sh, nrep, cmd>>

Parse ==
    /\ cmd.pc = "driving"
    /\ ParseStep(cl, OnParse(cl, ParseWith(cl.op, cl.buf)))
    /\ cl' = OnParse(cl, ParseWith(cl.op, cl.buf))
    /\ UNCHANGED <<sent, closed, bare_end, sh, nrep, cmd>>

\* ------------------------------------------------------------ specification
U64MaxLine == <<"1", "8", "4", "4", "6", "7", "4", "4", "0", "7", "3", "7",
                "0", "9", "5", "5", "1", "6", "1", "5">>
Replies ==
    {Line(STORED), Line(NOT_STORED), Line(DELETED), Line(NOT_FOUND),
     Line(<<"0">>), Line(U64MaxLine), Line(END),
     ValueBlock(<<"a">>, <<"0">>, <<"v">>) \o Line(END),
     ValueBlock(<<"a">>, <<"0">>, <<"v">>) \o ValueBlock(<<"b">>, <<"0">>, <<"v">>)
         \o Line(END),
     Line(<<"?">>)}
Partials == {<<>>, <<"S", "T">>}

\* The server answers a request it has received; what it answers is up to it.
Reply(r) == nrep < cmd.nreq /\ ServerSend(r)

Init ==
    /\ sent = <<>> /\ closed = FALSE /\ nrep = 0
    /\ bare_end \in {"absent", "present"}
    /\ cl = NewClient /\ sh = NewClient
    /\ cmd = NoCommand

\* The single-response commands, one after the other on one connection.
Next ==
    \/ \E r \in Replies : Reply(r)
    \/ \E p \in Partials : ServerClose(p)
    \/ \E k \in Keys : Get(k)
    \/ \E ks \in KeySeqs : GetMany(ks)
    \/ Set(<<"a">>, Payload, None, None)
    \/ Add(<<"a">>, Payload, None, None)
    \/ Delete(<<"a">>)
    \/ \E a \in Amounts : Increment(<<"a">>, a)
    \/ \E a \in Amounts : Decrement(<<"a">>, a)
    \/ Read
    \/ Parse
    \/ Finish

Spec == Init /\ [][Next]_vars

\* set_multi, called on a new connection.
MultiReplies == {Line(STORED), Line(NOT_STORED), Line(<<"0">>), Line(<<"?">>)}

NextMulti ==
    \/ \E r \in MultiReplies : Reply(r)
    \/ \E p \in Partials : ServerClose(p)
    \/ \E kv \in PairSeqs(MaxPairs) : cmd.seq = 0 /\ SetMulti(kv, None, None)
    \/ SetMultiWrite(None, None)
    \/ SetMultiFlush
    \/ SetMultiNext
    \/ SetMultiCorrelate
    \/ Read
    \/ Parse

SpecMulti == Init /\ [][NextMulti]_vars

\* ------------------------------------------------- one client, live server
\* The server sends replies and closes while one client calls
\* drive_receive(parse_ascii_response) again and again. A read that can
\* complete does, the parser attempt after it is made, and the server closes
\* the connection in the end.
InitDrive ==
    /\ sent = <<>> /\ closed = FALSE /\ nrep = 0
    /\ bare_end = "absent"
    /\ cl = NewClient /\ sh = NewClient
    /\ cmd = NoCommand

\* What the server sends to the one client.
DriveReplies == {Line(STORED), Line(<<"?">>)}

NextDrive ==
    \/ \E r \in DriveReplies : ServerSend(r)
    \/ \E p \in StreamPartials : ServerClose(p)
    \/ StreamCall(1)
    \/ StreamRead
    \/ StreamParse(1)

\* The parser attempt of the client is enabled exactly in these states, and
\* it always changes the state.
CanParse == cl.pc = "parse" \/ (cl.pc = "loop" /\ ~NeedsRead(cl))

\* Weak fairness of the read, of the server's close, and of the parser
\* attempt; the last is written out with CanParse for its ENABLED.
SpecDrive ==
    /\ InitDrive /\ [][NextDrive]_vars
    /\ WF_vars(StreamRead)
    /\ WF_vars(\E p \in StreamPartials : ServerClose(p))
    /\ ([]<>(~CanParse) \/ []<><<StreamParse(1)>>_vars)

\* C2: a read of zero bytes ends the cycle at once with the stream-closed
\* error: the step that reads zero bytes returns UnexpectedEof, returns no
\* response, leaves the consumed count and the buffer as they were, and the
\* cycle is over (so the parser is not offered the buffer again in it).
ZeroReadIsFatal ==
    /\ [](cl.zero_read => cl.pc = "ret" /\ cl.ret = Err(UnexpectedEof))
    /\ [][(cl'.zero_read /\ ~cl.zero_read) =>
            /\ cl'.pc = "ret"
            /\ cl'.ret = Err(UnexpectedEof)
            /\ cl'.last_read_n = cl.last_read_n
            /\ cl'.buf = cl.buf
            /\ cl'.log = Append(cl.log, [ret |-> Err(UnexpectedEof), n |-> None])]_vars

\* A cycle that found a marker and a partial response in the buffer read zero
\* bytes.
ZeroReadIsFatalWitness ==
    /\ cl.zero_read /\ cl.buf = <<"S", "T">>
    /\ IsSome(cl.start_n) /\ cl.last_read_n = cl.start_n

\* C3: every cycle that has entered the loop returns.
DriveTerminates == (cl.pc \in {"loop", "parse"}) ~> (cl.pc = "ret")

\* A cycle returned the stream-closed error after an incomplete parse of a
\* non-empty buffer on a closed stream.
DriveTerminatesWitness ==
    /\ closed /\ cl.pc = "ret" /\ cl.needs_more_data /\ cl.buf # <<>>
    /\ ~cl.ret.ok /\ cl.ret.err = UnexpectedEof

\* ------------------------------------------------------ set_multi, checked
\* What set_multi has in hand when it has returned.
SetMultiDone == cmd.name = "set_multi" /\ cmd.pc = "done"
KeyAt(i) == cmd.kv[i][1]
DistinctKeys == \A i, j \in 1..Len(cmd.kv) : KeyAt(i) = KeyAt(j) => i = j
Stored == RStatus(Status("Stored"))

\* C4: multi-key store correlation. When set_multi returns a mapping for
\* pairs with distinct keys, a key is in the mapping exactly if the response
\* driven at its position was not Status(Stored), and a key whose response
\* was another status maps to the error of that status.
SetMultiCorrelation ==
    (SetMultiDone /\ cmd.ret.ok /\ DistinctKeys) =>
        /\ Len(cmd.driven) = Len(cmd.kv)
        /\ DOMAIN cmd.ret.val \subseteq {KeyAt(i) : i \in 1..Len(cmd.kv)}
        /\ \A i \in 1..Len(cmd.kv) :
              /\ cmd.driven[i].ok
              /\ KeyAt(i) \in DOMAIN cmd.ret.val <=> cmd.driven[i].val # Stored
              /\ (cmd.driven[i].val.type = "Status" /\ cmd.driven[i].val # Stored) =>
                    cmd.ret.val[KeyAt(i)] = Err(ProtocolError(cmd.driven[i].val.status))

\* The replies STORED and NOT_STORED to the pairs of a and b: the mapping
\* holds b alone, with the not-stored error.
SetMultiCorrelationWitness ==
    /\ SetMultiDone /\ cmd.ret.ok
    /\ Len(cmd.kv) = 2 /\ KeyAt(1) = <<"a">> /\ KeyAt(2) = <<"b">>
    /\ sent = Line(STORED) \o Line(NOT_STORED)
    /\ DOMAIN cmd.ret.val = {<<"b">>}
    /\ cmd.ret.val[<<"b">>] = Err(ProtocolError(Status("NotStored")))

\* C5: multi-key store ordering. The frames are written in the caller's
\* order while the client does nothing on the receiving side; the one flush
\* is made when all n frames are written; every cycle is begun after it, the
\* i-th for the i-th pair, n of them when a mapping is returned. With no
\* pairs there is no frame, no flush, no cycle, and the mapping is empty.
SetMultiOrdering ==
    /\ [](cmd.name = "set_multi" =>
            /\ Len(cmd.out) <= Len(cmd.kv)
            /\ \A i \in 1..Len(cmd.out) :
                  cmd.out[i] = StoreFrame(SET_, KeyAt(i), cmd.kv[i][2], None, None)
            /\ cmd.flushes = (IF cmd.pc = "writing" \/ cmd.kv = <<>> THEN 0 ELSE 1)
            /\ cmd.flushes = 1 => Len(cmd.out) = Len(cmd.kv)
            /\ cmd.flushes = 0 => cl = NewClient
            /\ Len(cmd.driven) = cmd.j /\ cmd.j <= Len(cmd.kv)
            /\ cl.cycles = (IF cmd.pc = "driving" THEN cmd.j + 1 ELSE cmd.j)
            /\ \A i \in 1..Len(cmd.driven) : cmd.driven[i] = cl.log[i].ret
            /\ (cmd.pc = "done" /\ cmd.ret.ok) => Len(cmd.driven) = Len(cmd.kv)
            /\ (cmd.pc = "done" /\ cmd.kv = <<>>) =>
                  cmd.out = <<>> /\ cmd.ret = Ok(EmptyMap))
    /\ [][(cmd.name = "set_multi" /\ cl' # cl) =>
            /\ cmd.flushes = 1 /\ cmd'.flushes = 1
            /\ cmd'.out = cmd.out]_vars

\* Two pairs: two frames, one flush, then the two responses in order.
SetMultiOrderingWitness ==
    /\ SetMultiDone /\ cmd.ret.ok
    /\ Len(cmd.kv) = 2 /\ KeyAt(1) = <<"b">> /\ KeyAt(2) = <<"a">>
    /\ Len(cmd.out) = 2 /\ cmd.flushes = 1
    /\ cmd.driven = <<Ok(RStatus(Status("NotStored"))), Ok(Stored)>>
    /\ cl.cycles = 2

\* The failure a driven response is for its key, if it is one.
IsFailure(d) == d.ok /\ d.val # Stored
FailureOf(d) ==
    IF d.val.type = "Status" THEN Err(ProtocolError(d.val.status))
    ELSE Err(UnexpectedResponse)
LastFailure(i) ==
    \A j \in (i + 1)..Len(cmd.driven) :
        KeyAt(j) = KeyAt(i) => ~IsFailure(cmd.driven[j])

\* C6, as the spec has it: whatever failure the reply for a key is (a status
\* other than Stored, a response of another kind, a malformed reply), set_multi
\* records it under the key, drives the replies of the remaining keys, and
\* returns the mapping.
SetMultiNeverAborts ==
    (SetMultiDone /\ cmd.kv # <<>>
        /\ \A i \in 1..Len(cmd.driven) :
              cmd.driven[i].ok \/ cmd.driven[i].err.e = "Protocol") =>
        /\ cmd.ret.ok
        /\ Len(cmd.driven) = Len(cmd.kv)
        /\ \A i \in 1..Len(cmd.kv) :
              cmd.driven[i] # Ok(Stored) => KeyAt(i) \in DOMAIN cmd.ret.val

\* C6, amended: a status other than Stored, or a response of another kind,
\* is recorded under its key and the remaining replies are driven and
\* correlated; a cycle that ends in an error (a malformed reply, a closed
\* stream) ends set_multi with that error, and no mapping is returned.
SetMultiPerKeyFailures ==
    (SetMultiDone /\ cmd.kv # <<>>) =>
        IF \A i \in 1..Len(cmd.driven) : cmd.driven[i].ok
        THEN /\ cmd.ret.ok
             /\ Len(cmd.driven) = Len(cmd.kv)
             /\ \A i \in 1..Len(cmd.kv) :
                   IsFailure(cmd.driven[i]) =>
                      /\ KeyAt(i) \in DOMAIN cmd.ret.val
                      /\ LastFailure(i) =>
                            cmd.ret.val[KeyAt(i)] = FailureOf(cmd.driven[i])
        ELSE /\ ~cmd.driven[Len(cmd.driven)].ok
             /\ \A i \in 1..(Len(cmd.driven) - 1) : cmd.driven[i].ok
             /\ cmd.ret = Err(cmd.driven[Len(cmd.driven)].err)

\* The first key got a number, the second NOT_STORED: both are in the
\* mapping, each with its own failure.
SetMultiPerKeyFailuresWitness ==
    /\ SetMultiDone /\ cmd.ret.ok
    /\ Len(cmd.kv) = 2 /\ KeyAt(1) = <<"a">> /\ KeyAt(2) = <<"b">>
    /\ cmd.driven[1].val.type = "IncrDecr"
    /\ cmd.ret.val[<<"a">>] = Err(UnexpectedResponse)
    /\ cmd.ret.val[<<"b">>] = Err(ProtocolError(Status("NotStored")))

\* ------------------------------------------- single-response commands, checked
\* The response a finished command matched on, when its cycle returned one.
Done(names) == cmd.name \in names /\ cmd.pc = "done"
Got == cmd.driven[1].val
GotResponse == Len(cmd.driven) = 1 /\ cmd.driven[1].ok
Items == Unwrap(Got.data)

\* C7: single-key retrieval. get returns the item of a Data response with one
\* Value; the absent result for NotFound and for a Data response with no
\* items, absent or present and empty; a protocol error for a Data response
\* with more than one item.
GetMapping ==
    (Done({"get"}) /\ GotResponse) =>
        /\ (Got.type = "Data" /\ IsSome(Got.data) /\ Len(Items) = 1) =>
              cmd.ret = Ok(Some(Items[1]))
        /\ (Got = RStatus(Status("NotFound"))
              \/ (Got.type = "Data" /\ (~IsSome(Got.data) \/ Items = <<>>))) =>
              cmd.ret = Ok(None)
        /\ (Got.type = "Data" /\ IsSome(Got.data) /\ Len(Items) > 1) =>
              cmd.ret = Err(UnexpectedResponse)

\* get was given a Data response that is present and empty, and returned the
\* protocol error.
GetOfEmptyData ==
    /\ Done({"get"}) /\ GotResponse
    /\ Got = RData(Some(<<>>))
    /\ cmd.ret = Err(UnexpectedResponse)

\* C8, as the spec has it: get_many returns the items of the Data response,
\* and an empty result, not an error, when the Data response is absent.
GetManyAbsentIsEmpty ==
    (Done({"get_many"}) /\ GotResponse /\ Got.type = "Data") =>
        cmd.ret = Ok(IF IsSome(Got.data) THEN Items ELSE <<>>)

\* C8, amended: get_many returns the items of a present Data response as
\* they are (none, one or several); for an absent Data response it returns
\* the NotFound status as an error, and for a Status response that status.
GetManyMapping ==
    (Done({"get_many"}) /\ GotResponse) =>
        /\ (Got.type = "Data" /\ IsSome(Got.data)) => cmd.ret = Ok(Items)
        /\ (Got.type = "Data" /\ ~IsSome(Got.data)) =>
              cmd.ret = Err(ProtocolError(Status("NotFound")))
        /\ Got.type = "Status" => cmd.ret = Err(ProtocolError(Got.status))

\* get_many of a and b got the block of a alone and returned that one item.
GetManyMappingWitness ==
    /\ Done({"get_many"}) /\ GotResponse
    /\ sent = ValueBlock(<<"a">>, <<"0">>, <<"v">>) \o Line(END)
    /\ cmd.ret = Ok(<<Value(<<"a">>, 0, <<"v">>, None)>>)

\* C9: the acknowledged writes. set and add succeed exactly on
\* Status(Stored), delete exactly on Status(Deleted); another status is
\* returned as the error of that status, a response that is no status as the
\* protocol error; each of them drives one response.
WriteStatusMapping ==
    /\ (Done({"set", "add", "delete"}) /\ GotResponse) =>
          LET success == IF cmd.name = "delete" THEN RStatus(Status("Deleted"))
                         ELSE Stored
          IN /\ cmd.ret.ok <=> Got = success
             /\ cmd.ret.ok => cmd.ret = Ok(Unit)
             /\ (Got.type = "Status" /\ Got # success) =>
                   cmd.ret = Err(ProtocolError(Got.status))
             /\ Got.type # "Status" => cmd.ret = Err(UnexpectedResponse)
    /\ cmd.name \in {"set", "add", "delete"} =>
          /\ cl.cycles = cmd.seq
          /\ Len(cmd.driven) = (IF cmd.pc = "done" THEN 1 ELSE 0)

\* delete got STORED, the success of another verb, and returned it as an
\* error.
WriteStatusMappingWitness ==
    /\ Done({"delete"}) /\ GotResponse
    /\ Got = Stored
    /\ cmd.ret = Err(ProtocolError(Status("Stored")))

\* C10: the arithmetic commands. increment and decrement return the number
\* of an IncrDecr response as the server wrote it, 0 and 2^64 - 1 included;
\* a status is returned as the error of that status, a Data response as the
\* protocol error.
IncrDecrVerbatim ==
    (Done({"increment", "decrement"}) /\ GotResponse /\ cmd.seq = 1) =>
        /\ Got.type = "IncrDecr" =>
              /\ cmd.ret = Ok(Got.value)
              /\ sent = Line(<<"0">>) => cmd.ret.val = U64Zero
              /\ sent = Line(U64MaxLine) => cmd.ret.val = U64Max
        /\ Got.type = "Status" => cmd.ret = Err(ProtocolError(Got.status))
        /\ Got.type = "Data" => cmd.ret = Err(UnexpectedResponse)

\* increment got 18446744073709551615 and returned it.
IncrDecrVerbatimWitness ==
    /\ Done({"increment"}) /\ GotResponse
    /\ sent = Line(U64MaxLine)
    /\ cmd.ret = Ok(U64Max) /\ U64Max # U64Zero

\* ------------------------------------------------------ no-reply commands
\* A set that waits for its reply, and the no-reply commands before or after
\* it; the server sends what it likes, asked or not.
NoReplyReplies == {Line(STORED), Line(NOT_STORED)}

NextNoReply ==
    \/ \E r \in NoReplyReplies : ServerSend(r)
    \/ \E p \in Partials : ServerClose(p)
    \/ Set(<<"a">>, Payload, None, None)
    \/ SetNoReply(<<"a">>, Payload, None, None)
    \/ DeleteNoReply(<<"a">>)
    \/ \E a \in Amounts : IncrementNoReply(<<"a">>, a)
    \/ \E a \in Amounts : DecrementNoReply(<<"a">>, a)
    \/ Read
    \/ Parse
    \/ Finish

SpecNoReply == Init /\ [][NextNoReply]_vars

NoReplyNames ==
    {"set_no_reply", "delete_no_reply", "increment_no_reply", "decrement_no_reply"}

\* The frame of a no-reply command carries the noreply token at the end of
\* its first line.
HasNoReplyToken(frame) ==
    /\ LineEnd(frame) > Len(NOREPLY)
    /\ SubSeq(frame, LineEnd(frame) - Len(NOREPLY), LineEnd(frame) - 1) = NOREPLY

EntryLine ==
    Line(<<"k", "e", "y", "=", "a", " ", "e", "x", "p", "=", "-", "1", " ",
           "l", "a", "=", "0", " ", "c", "a", "s", "=", "1", " ",
           "f", "e", "t", "c", "h", "=", "n", "o", " ",
           "c", "l", "s", "=", "1", " ", "s", "i", "z", "e", "=", "1">>)
EntryA == KeyMetadata(<<"a">>, 0 - 1, 0, 1, FALSE, 1, 1)
MetadumpReplies ==
    {EntryLine, Line(END), Line(BUSY \o <<"x">>), Line(BADCLASS \o <<"x">>),
     Line(<<"?">>)}

NextDump ==
    \/ \E r \in MetadumpReplies : ServerSend(r)
    \/ \E p \in Partials : ServerClose(p)
    \/ DumpKeys
    \/ MetadumpNext
    \/ MetadumpNextReturn
    \/ Read
    \/ Parse

SpecDump == Init /\ [][NextDump]_vars

Dumping == cmd.name = "dump_keys"
\* The step is the return of a pull, and what the pull returned.
PullReturns == Dumping /\ Len(cmd'.pulled) = Len(cmd.pulled) + 1
Pulled == cmd'.pulled[Len(cmd'.pulled)]
BusyError(m) == Err(ProtocolError(StatusError([k |-> "Busy", msg |-> m])))
BadClassError(m) == Err(ProtocolError(StatusError([k |-> "BadClass", msg |-> m])))

\* C12: the transitions of the metadump cursor. dump_keys drives nothing; a
\* pull on a cursor that is not done drives one metadump response, and End
\* sets done and returns nothing, BadClass sets done and returns an error,
\* Busy returns an error and Entry the item, both leaving the cursor open.
CursorTransitions ==
    /\ [](Dumping =>
            /\ cl.cycles = Len(cmd.driven) + (IF cmd.pc = "driving" THEN 1 ELSE 0)
            /\ Len(cmd.driven) <= Len(cmd.pulled)
            /\ cmd.pulled = <<>> => (~cmd.done /\ Len(cmd.driven) = 0))
    /\ [][(cmd'.name = "dump_keys" /\ cmd'.seq # cmd.seq) =>
            cl' = cl /\ cmd'.pc = "cursor" /\ ~cmd'.done]_vars
    /\ [][(PullReturns /\ ~cmd.done) =>
            /\ cmd.pc = "driving" /\ cl.pc = "ret" /\ cl' = cl
            /\ cmd'.driven = Append(cmd.driven, cl.ret)
            /\ cl.ret.ok =>
                 LET r == cl.ret.val
                 IN /\ r.type = "End" => (cmd'.done /\ Pulled = None)
                    /\ r.type = "BadClass" =>
                          (cmd'.done /\ Pulled = Some(BadClassError(r.msg)))
                    /\ r.type = "Busy" =>
                          (~cmd'.done /\ Pulled = Some(BusyError(r.msg)))
                    /\ r.type = "Entry" => (~cmd'.done /\ Pulled = Some(Ok(r.km)))]_vars

\* Three pulls got Busy, the entry of a, and End: an error with the cursor
\* left open, the item, nothing with the cursor done.
CursorTransitionsWitness ==
    /\ Dumping /\ cmd.pc = "cursor" /\ cmd.done
    /\ cmd.pulled = <<Some(BusyError(<<"x">>)), Some(Ok(EntryA)), None>>
    /\ cl.cycles = 3

\* C13: exhaustion is absorbing. Once a pull has returned nothing, every
\* later pull returns nothing, and no step changes the client any more: no
\* cycle, no read, the buffer and the marker as they were.
ExhaustionIsAbsorbing ==
    /\ [](Dumping => \A i, j \in 1..Len(cmd.pulled) :
            (i < j /\ cmd.pulled[i] = None) => cmd.pulled[j] = None)
    /\ [][(Dumping /\ \E i \in 1..Len(cmd.pulled) : cmd.pulled[i] = None) =>
            cl' = cl /\ cmd'.done]_vars

\* The entry of a, then End, then a third pull that returned nothing and
\* left the client as the second had, with unread bytes on the connection.
ExhaustionIsAbsorbingWitness ==
    /\ Dumping /\ cmd.pulled = <<Some(Ok(EntryA)), None, None>>
    /\ cl.cycles = 2 /\ Len(sent) > cl.rpos
    /\ IsSome(cl.last_read_n) /\ cl.buf # <<>>

\* What a pull returned is an error, or an entry.
IsPullError(p) == p # None /\ ~p[1].ok
IsPullEntry(p) == p # None /\ p[1].ok

\* C14, as the spec has it: after a pull that returned nothing or an error,
\* no later pull on the cursor returns an entry.
NotRestartable ==
    Dumping => \A i, j \in 1..Len(cmd.pulled) :
        (i < j /\ (cmd.pulled[i] = None \/ IsPullError(cmd.pulled[i]))) =>
            ~IsPullEntry(cmd.pulled[j])

\* C14, amended: after a pull that returned nothing or the BadClass error,
\* every later pull returns nothing.
NotRestartableOnceDone ==
    Dumping => \A i, j \in 1..Len(cmd.pulled) :
        (i < j /\ (cmd.pulled[i] = None
                     \/ \E m \in {<<"x">>} : cmd.pulled[i] = Some(BadClassError(m)))) =>
            cmd.pulled[j] = None

\* BadClass, then two pulls that returned nothing although the server had
\* sent an entry after it.
NotRestartableOnceDoneWitness ==
    /\ Dumping /\ cmd.pulled = <<Some(BadClassError(<<"x">>)), None, None>>
    /\ sent = Line(BADCLASS \o <<"x">>) \o EntryLine

\* ----------------------------------------------------------------- version
\* version on a new connection; the server sends lines of its choice.
VERSION_ == <<"V", "E", "R", "S", "I", "O", "N", " ">>
V167 == <<"1", ".", "6", ".", "7">>
VersionReplies ==
    {Line(VERSION_ \o V167), Line(ERROR), Line(SERVER_ERROR \o <<"x">>),
     Line(<<"V", "E", "R", "S", "I", "O", "N", LeadByte, ContinuationByte>>)}
VersionPartials == {<<>>, <<"V", "E", "R">>}

NextVersion ==
    \/ \E r \in VersionReplies : ServerSend(r)
    \/ \E p \in VersionPartials : ServerClose(p)
    \/ Version
    \/ VersionReadLine

SpecVersion == Init /\ [][NextVersion]_vars

VersionDone == cmd.name = "version" /\ cmd.pc = "done"

\* C15: version. For the line VERSION <v> and the line break, version
\* returns <v> alone, without the 8-character prefix and without the line
\* break; for a line shorter than 8 characters it returns the protocol error
\* whose message holds the line.
VersionStripsPrefixAndLineBreak ==
    VersionDone =>
        /\ \A v \in {V167} : cmd.line = Line(VERSION_ \o v) => cmd.ret = Ok(v)
        /\ Len(cmd.line) < 8 =>
              /\ ~cmd.ret.ok /\ cmd.ret.err.e = "Protocol"
              /\ cmd.ret.err.status.err.msg =
                    Some(INVALID_VERSION \o cmd.line \o <<Grave>>)

\* version read VERSION 1.6.7 and the line break, and returned 1.6.7 with
\* the line break.
VersionKeepsLineBreak ==
    /\ VersionDone /\ cmd.line = Line(VERSION_ \o V167)
    /\ cmd.ret = Ok(V167 \o CRLF)

\* C16: version fails as every command does. For a line that does not begin
\* with the VERSION prefix, an error status line of any length among them,
\* version returns an error, never a value.
VersionFailsOnOtherLines ==
    (VersionDone /\ ~StartsWith(cmd.line, VERSION_)) => ~cmd.ret.ok

\* version read SERVER_ERROR x and returned the value RROR x with the line
\* break.
VersionOfServerError ==
    /\ VersionDone /\ cmd.line = Line(SERVER_ERROR \o <<"x">>)
    /\ cmd.ret = Ok(<<"R", "R", "O", "R", " ", "x">> \o CRLF)

\* ------------------------------------------------------------------- stats
\* stats on a new connection; the server sends statistics lines, END and a
\* line of no grammar.
PID == <<"p", "i", "d">>
UPTIME == <<"u", "p", "t", "i", "m", "e">>
StatsReplies ==
    {Line(STAT \o PID \o <<SP, "1", "2", "3">>),
     Line(STAT \o UPTIME \o <<SP, "4", "5", "6">>),
     Line(END), Line(<<"?">>)}

NextStats ==
    \/ \E r \in StatsReplies : ServerSend(r)
    \/ \E p \in {<<>>, <<"S", "T">>} : ServerClose(p)
    \/ Stats
    \/ StatsNext
    \/ Read
    \/ Parse

SpecStats == Init /\ [][NextStats]_vars

\* The entries among the responses d, as the mapping from each name to the
\* value of the last entry of that name.
IsEntry(r) == r.ok /\ r.val.type = "Entry"
EntriesOf(d) ==
    LET at(k) == {i \in 1..Len(d) : IsEntry(d[i]) /\ d[i].val.key = k}
    IN [k \in {d[i].val.key : i \in {j \in 1..Len(d) : IsEntry(d[j])}} |->
           d[CHOOSE i \in at(k) : \A j \in at(k) : j <= i].val.value]

\* C17: stats. Every response stats has driven but the last is an Entry, so
\* End or an error is the last one driven and no cycle follows it; once
\* stats has returned, no cycle is in progress, and it has returned the
\* mapping of the entries driven when the last response is End, the error of
\* the last cycle when that cycle failed.
StatsCollectsUntilEnd ==
    cmd.name = "stats" =>
        LET d == cmd.driven
            n == Len(d)
        IN /\ \A i \in 1..(n - 1) : IsEntry(d[i])
           /\ cmd.pc = "driving" => \A i \in 1..n : IsEntry(d[i])
           /\ cmd.pc = "done" =>
                 /\ n >= 1 /\ ~IsEntry(d[n])
                 /\ cl.pc = "ret" /\ cl.ret = d[n]
                 /\ d[n].ok => d[n].val = SEnd /\ cmd.ret = Ok(EntriesOf(d))
                 /\ ~d[n].ok => cmd.ret = Err(d[n].err)

\* stats has returned {pid: 123, uptime: 456} for the two lines and END.
StatsCollectsUntilEndWitness ==
    /\ cmd.name = "stats" /\ cmd.pc = "done" /\ Len(cmd.driven) = 3
    /\ cmd.ret = Ok(Insert(Insert(EmptyMap, PID, <<"1", "2", "3">>),
                           UPTIME, <<"4", "5", "6">>))

\* stats has returned an error after an entry.
StatsAbortsWitness ==
    /\ cmd.name = "stats" /\ cmd.pc = "done" /\ Len(cmd.driven) = 2
    /\ ~cmd.ret.ok

\* ------------------------------------------------------ retrieval frames
\* The frame as written in the protocol: get, then a space and a key for
\* every key, then the line break.
RECURSIVE SpaceThenKeys(_)
SpaceThenKeys(keys) ==
    IF keys = <<>> THEN <<>>
    ELSE <<SP>> \o keys[1] \o SpaceThenKeys(Tail(keys))
RetrievalFrame(keys) == <<"g", "e", "t">> \o SpaceThenKeys(keys) \o CRLF

\* C18: the retrieval request frame. What get_many has written for the keys
\* k1..kn is get k1 k2 ... kn and the line break, with one space before each
\* key and no byte between the last key and the line break; what get has
\* written is get <key> and the line break.
RetrievalFrames ==
    cmd.name \in {"get", "get_many"} => cmd.out = <<RetrievalFrame(cmd.keys)>>

\* get_many of a and b has written get a b, a space, and the line break.
GetManyTrailingSpace ==
    /\ cmd.name = "get_many" /\ cmd.keys = <<<<"a">>, <<"b">>>>
    /\ cmd.out = <<<<"g", "e", "t", SP, "a", SP, "b", SP, CR, LF>>>>

\* ------------------------------------------------- the response boundary
\* The sum of the consumed counts of the responses a client has returned.
RECURSIVE SumCounts(_)
SumCounts(log) ==
    IF log = <<>> THEN 0
    ELSE (IF IsSome(log[1].n) THEN Unwrap(log[1].n) ELSE 0) + SumCounts(Tail(log))

\* C19: the response boundary. Inside a cycle the bytes dropped from the
\* front of the buffer are the sum of the consumed counts of the responses
\* returned so far, so the parser sees a buffer that starts at a response
\* boundary; after a cycle has returned a response, its count alone is still
\* to be applied; after a cycle has returned an error, no count is left to
\* be applied.
ResponseBoundary ==
    /\ cl.pc \in {"loop", "parse"} => cl.dropped = SumCounts(cl.log)
    /\ (cl.pc = "ret" /\ cl.ret.ok) =>
          /\ IsSome(cl.last_read_n)
          /\ cl.dropped + Unwrap(cl.last_read_n) = SumCounts(cl.log)
    /\ (cl.pc = "ret" /\ ~cl.ret.ok) =>
          /\ cl.last_read_n = None
          /\ cl.dropped = SumCounts(cl.log)

\* After STORED and a malformed line the client is in its third cycle: it
\* has returned one response of 8 bytes and has dropped 16, and the parser
\* is offered the buffer.
CountAppliedTwice ==
    /\ cl.pc = "loop" /\ ~cl.needs_more_data /\ cl.buf # <<>>
    /\ Len(cl.log) = 2 /\ cl.log[1].ret.ok /\ ~cl.log[2].ret.ok
    /\ SumCounts(cl.log) = 8 /\ cl.dropped = 16

\* ----------------------------------------------------- the read discipline
\* A step of the client that reads from the transport, and one that returns.
ReadHappens == cl'.rpos # cl.rpos \/ (cl'.zero_read /\ ~cl.zero_read)
CycleReturns == cl'.pc = "ret" /\ cl.pc \in {"loop", "parse"}

\* C20: the read discipline of drive_receive. The transport is read only at
\* the head of the loop, with the buffer empty or with the buffer as the
\* parser has just found it incomplete; a cycle that begins with a complete
\* response in its buffer returns it in its next step, having read nothing;
\* a step whose parser outcome is Parsed records the count and returns the
\* response in that step, reading nothing; and every cycle that has returned
\* has returned one response or one error.
ReadDiscipline ==
    /\ [](cl.pc = "ret" => Len(cl.log) = cl.cycles)
    /\ [](cl.pc \in {"loop", "parse"} => Len(cl.log) = cl.cycles - 1)
    /\ [][/\ ReadHappens =>
               /\ cl.pc = "loop"
               /\ \/ cl.buf = <<>>
                  \/ /\ cl.needs_more_data
                     /\ ParseWith(cl.op, cl.buf).kind = "Incomplete"
          /\ (/\ cl.pc = "loop" /\ ~cl.needs_more_data
              /\ ParseWith(cl.op, cl.buf).kind = "Parsed"
              /\ cl' # cl) =>
                 /\ cl'.pc = "ret" /\ ~cl'.has_read
                 /\ cl'.ret = Ok(ParseWith(cl.op, cl.buf).resp)
          /\ (CycleReturns /\ cl'.ret.ok) =>
                 /\ ~ReadHappens
                 /\ ParseWith(cl.op, cl.buf).kind = "Parsed"
                 /\ cl'.ret = Ok(ParseWith(cl.op, cl.buf).resp)
                 /\ cl'.last_read_n = Some(ParseWith(cl.op, cl.buf).n)
                 /\ cl'.buf = cl.buf
                 /\ cl'.log = Append(cl.log, [ret |-> cl'.ret, n |-> cl'.last_read_n])
       ]_vars

\* The second cycle has returned a response left in the buffer by the read
\* of the first, without a read of its own.
ReadDisciplineWitness ==
    /\ cl.pc = "ret" /\ cl.ret.ok /\ ~cl.has_read
    /\ cl.cycles = 2 /\ cl.dropped = 8 /\ cl.rpos >= 16

\* ---------------------------------------------------------- the front drop
\* C22: the front drop never exceeds the buffer. Whenever a cycle can begin,
\* the recorded consumed count is at most the length of the buffer, so no
\* cycle panics in split_to.
FrontDropFits ==
    /\ cl.pc # "panicked"
    /\ (cl.pc \in {"idle", "ret"} /\ IsSome(cl.last_read_n)) =>
          ~SplitToPanics(cl.buf, Unwrap(cl.last_read_n))

\* The third cycle panicked: the first returned a response of 8 bytes, the
\* second dropped them and returned the malformed-reply error with 3 bytes
\* in the buffer, and the third found the count of 8 still recorded.
FrontDropPanics ==
    /\ cl.pc = "panicked" /\ cl.cycles = 3
    /\ cl.last_read_n = Some(8) /\ Len(cl.buf) = 3
    /\ cl.log[1].ret.ok /\ ~cl.log[2].ret.ok /\ cl.log[3].ret = Panicked

\* ------------------------------------------- set_multi, a key more than once
\* The positions of key k among the pairs, and those whose response was a
\* failure.
PositionsOf(k) == {i \in 1..Len(cmd.kv) : KeyAt(i) = k}
FailuresOf(k) == {i \in PositionsOf(k) : IsFailure(cmd.driven[i])}
Highest(S) == CHOOSE i \in S : \A j \in S : j <= i

\* C24: set_multi with a key that occurs more than once. When set_multi
\* returns a mapping, it has written one frame and driven one response per
\* pair; a key is in the mapping exactly if the response of one of its
\* occurrences was not Stored, whatever a later occurrence got, and its entry
\* is the failure of the last such occurrence.
SetMultiRepeatedKey ==
    (SetMultiDone /\ cmd.ret.ok /\ ~DistinctKeys) =>
        /\ Len(cmd.out) = Len(cmd.kv)
        /\ Len(cmd.driven) = Len(cmd.kv)
        /\ DOMAIN cmd.ret.val =
              {k \in {KeyAt(i) : i \in 1..Len(cmd.kv)} : FailuresOf(k) # {}}
        /\ \A k \in DOMAIN cmd.ret.val :
              cmd.ret.val[k] = FailureOf(cmd.driven[Highest(FailuresOf(k))])

\* The key a twice, with a number and then NOT_STORED: the mapping holds the
\* not-stored error for a.
SetMultiRepeatedKeyWitness ==
    /\ SetMultiDone /\ cmd.ret.ok
    /\ Len(cmd.kv) = 2 /\ KeyAt(1) = <<"a">> /\ KeyAt(2) = <<"a">>
    /\ cmd.driven[1].val.type = "IncrDecr"
    /\ cmd.driven[2].val = RStatus(Status("NotStored"))
    /\ cmd.ret.val = Insert(EmptyMap, <<"a">>, Err(ProtocolError(Status("NotStored"))))

\* The key a twice, with NOT_STORED and then STORED: a stays in the mapping.
SetMultiStoredKeepsEntry ==
    /\ SetMultiDone /\ cmd.ret.ok
    /\ Len(cmd.kv) = 2 /\ KeyAt(1) = <<"a">> /\ KeyAt(2) = <<"a">>
    /\ cmd.driven[2].val = Stored
    /\ DOMAIN cmd.ret.val = {<<"a">>}

\* ---------------------------------------------------------------- a session
\* Commands of every kind, one after the other on one connection, with a
\* server that follows the protocol: it answers the requests in the order it
\* got them, each with a reply the protocol defines for it, and sends
\* nothing else. A cursor is dropped once it is done.
RECURSIVE ValueBlocks(_)
ValueBlocks(keys) ==
    IF keys = <<>> THEN <<>>
    ELSE ValueBlock(keys[1], <<"0">>, Payload) \o ValueBlocks(Tail(keys))

\* The replies the protocol defines for a request frame.
RepliesTo(frame) ==
    IF HasNoReplyToken(frame) THEN {}
    ELSE IF StartsWith(frame, GET_)
    THEN {Line(END),
          ValueBlocks(Tail(Words(Take(frame, Len(frame) - 2)))) \o Line(END)}
    ELSE IF StartsWith(frame, SET_) \/ StartsWith(frame, ADD_)
    THEN {Line(STORED), Line(NOT_STORED)}
    ELSE IF StartsWith(frame, DELETE_) THEN {Line(DELETED), Line(NOT_FOUND)}
    ELSE IF StartsWith(frame, INCR_) \/ StartsWith(frame, DECR_)
    THEN {Line(<<"7">>), Line(NOT_FOUND)}
    ELSE IF frame = VERSION_FRAME THEN {Line(VERSION_ \o V167)}
    ELSE IF frame = STATS_FRAME
    THEN {Line(END), Line(STAT \o PID \o <<SP, "1", "2", "3">>) \o Line(END)}
    ELSE IF frame = LRU_CRAWLER_METADUMP_ALL
    THEN {Line(END), EntryLine \o Line(END), Line(BADCLASS \o <<"x">>),
          Line(BUSY \o <<"x">>)}
    ELSE {}

\* The request frames of the command in progress that are not answered yet.
Pending == cmd.nreq - nrep

ServerAnswer ==
    /\ Pending \in 1..Len(cmd.out)
    /\ \E r \in RepliesTo(cmd.out[Len(cmd.out) - Pending + 1]) : ServerSend(r)

\* The pairs set_multi is called with in a session.
SessionPairs == <<<<<<"a">>, Payload>>, <<<<"b">>, Payload>>>>

NextSession ==
    \/ ServerAnswer
    \/ ServerClose(<<>>)
    \/ Get(<<"a">>)
    \/ GetMany(<<<<"a">>, <<"b">>>>)
    \/ Set(<<"a">>, Payload, None, None)
    \/ Delete(<<"a">>)
    \/ \E a \in Amounts : Increment(<<"a">>, a)
    \/ SetNoReply(<<"a">>, Payload, None, None)
    \/ DeleteNoReply(<<"a">>)
    \/ \E a \in Amounts : IncrementNoReply(<<"a">>, a)
    \/ \E a \in Amounts : DecrementNoReply(<<"a">>, a)
    \/ cmd.seq < MaxCommands /\ SetMulti(SessionPairs, None, None)
    \/ SetMultiWrite(None, None)
    \/ SetMultiFlush
    \/ SetMultiNext
    \/ SetMultiCorrelate
    \/ Version
    \/ VersionReadLine
    \/ DumpKeys
    \/ MetadumpNext
    \/ MetadumpNextReturn
    \/ cmd.done /\ CursorDrop
    \/ Stats
    \/ StatsNext
    \/ Read
    \/ Parse
    \/ Finish

SpecSession == Init /\ [][NextSession]_vars

\* C21: the frame condition on the receive buffer. The buffer changes only
\* when a cycle begins, by the recorded count dropped from its front, and
\* when the loop reads, by the bytes read appended at its end; an incomplete
\* parse leaves it as it is; the marker changes only inside a cycle; and a
\* step outside drive_receive (frames written, flushes, the no-reply
\* commands, version, dump_keys, a pull on a finished cursor) leaves the
\* buffer and the marker as they are.
InCycle(c) == c.pc \in {"loop", "parse"}
BufferFrame ==
    [][/\ cl'.buf # cl.buf =>
             \/ /\ ~InCycle(cl) /\ cl'.pc = "loop"
                /\ IsSome(cl.last_read_n)
                /\ cl'.buf = Drop(cl.buf, Unwrap(cl.last_read_n))
             \/ /\ cl.pc = "loop" /\ cl'.pc = "parse" /\ cl'.rpos > cl.rpos
                /\ cl'.buf = cl.buf \o SubSeq(sent, cl.rpos + 1, cl'.rpos)
       /\ (InCycle(cl) /\ cl'.pc = "loop") => cl'.buf = cl.buf
       /\ cl'.last_read_n # cl.last_read_n => InCycle(cl)
       /\ (~InCycle(cl) /\ ~InCycle(cl')) =>
             cl'.buf = cl.buf /\ cl'.last_read_n = cl.last_read_n
      ]_vars

\* version has returned on a client whose buffer holds the response of the
\* command before it, with its count recorded.
BufferFrameWitness ==
    /\ cmd.name = "version" /\ cmd.pc = "done" /\ cmd.ret.ok
    /\ cl.buf # <<>> /\ cl.last_read_n = Some(Len(cl.buf))

\* A read has appended to a buffer the parser had found incomplete.
BufferGrowsWitness ==
    /\ cl.pc = "parse" /\ cl.needs_more_data
    /\ Len(cl.buf) > 1 /\ cl.rpos = Len(sent)

\* ------------------------------------------------------------- correlation
\* The replies the protocol defines for a sequence of request frames, one
\* after the other (none for a no-reply frame).
RECURSIVE AnswersTo(_)
AnswersTo(frames) ==
    IF frames = <<>> THEN {<<>>}
    ELSE {r \o t : r \in (IF RepliesTo(frames[1]) = {} THEN {<<>>}
                          ELSE RepliesTo(frames[1])),
                   t \in AnswersTo(Tail(frames))}

\* The responses the parser gives for bytes that hold whole responses.
RECURSIVE ParseAll(_, _)
ParseAll(op, bytes) ==
    IF bytes = <<>> \/ ParseWith(op, bytes).kind # "Parsed" THEN <<>>
    ELSE <<ParseWith(op, bytes).resp>>
             \o ParseAll(op, Drop(bytes, ParseWith(op, bytes).n))

\* The grammar the command in progress drives, the bytes it has consumed
\* (the counts of its cycles, or the line version read), and the last bytes
\* the server sent, as many as that.
GrammarOf(name) ==
    CASE name = "stats" -> "stats"
      [] name = "dump_keys" -> "metadump"
      [] OTHER -> "response"
ConsumedBy ==
    IF cmd.name = "version" THEN Len(cmd.line)
    ELSE SumCounts(SubSeq(cl.log, Len(cl.log) - Len(cmd.driven) + 1, Len(cl.log)))
OwnBytes == SubSeq(sent, Len(sent) - ConsumedBy + 1, Len(sent))

\* The command in progress has returned (its cursor, if it made one, is
\* done and dropped), no cycle on the connection has returned an error or
\* panicked, and the connection is open.
CompletedCleanly ==
    /\ cmd.pc = "done" /\ cmd.name # "none"
    /\ ~closed /\ cl.pc # "panicked"
    /\ \A i \in 1..Len(cl.log) : cl.log[i].ret.ok
    /\ cmd.name = "version" => cmd.ret.ok

\* C23: request/response correlation. When a command has returned in a
\* session without a failed cycle, every request is answered, every byte
\* the server sent has been read, the buffer holds the bytes of the recorded
\* count and no more, the bytes the command consumed are the last the server
\* sent and are a reply the protocol defines for its own frames, and the
\* responses it matched on are the ones those bytes hold.
Correlation ==
    CompletedCleanly =>
        /\ nrep = cmd.nreq
        /\ cl.rpos = Len(sent)
        /\ Len(cl.buf) = UnwrapOr(cl.last_read_n, 0)
        /\ ConsumedBy <= Len(sent)
        /\ OwnBytes \in AnswersTo(cmd.out)
        /\ IF cmd.name = "version" THEN cmd.line = OwnBytes
           ELSE /\ \A i \in 1..Len(cmd.driven) : cmd.driven[i].ok
                /\ [i \in 1..Len(cmd.driven) |-> cmd.driven[i].val] =
                      ParseAll(GrammarOf(cmd.name), OwnBytes)

\* stats, the second command after a set, has returned the mapping of the
\* reply to its own frame.
CorrelationWitness ==
    /\ CompletedCleanly /\ cmd.name = "stats" /\ cmd.seq = 2
    /\ sent = Line(STORED) \o Line(STAT \o PID \o <<SP, "1", "2", "3">>) \o Line(END)
    /\ cmd.ret = Ok(Insert(EmptyMap, PID, <<"1", "2", "3">>))

\* A get has returned after a cursor that was pulled until it was done.
CorrelationAfterCursor ==
    /\ CompletedCleanly /\ cmd.name = "get" /\ cmd.seq = 2
    /\ sent = EntryLine \o Line(END) \o ValueBlock(<<"a">>, <<"0">>, Payload) \o Line(END)
    /\ cmd.ret.ok

====
